---- MODULE Spec2Model ----
(***************************************************************************)
(* Streaming chat session of the Chat component                            *)
(* (src/src/components/StreamingMessage.js, lines 113-515).                *)
(*                                                                         *)
(* JavaScript runs one task at a time: a handler, or the continuation of   *)
(* an await, runs to completion together with the microtasks it queues.    *)
(* Each action below is one such task.  An exchange is one invocation of   *)
(* handleStreamedResponse; it is suspended at one of its three awaits      *)
(* (getAccessToken, fetch, reader.read) between tasks.                     *)
(*                                                                         *)
(* Strings are TLA+ strings (\o is +, Len is .length).  A field that may   *)
(* be undefined is a sequence of length 0 (undefined) or 1 (the value).    *)
(* Timestamps (new Date()) are only displayed and are left out; Date.now() *)
(* is the variable now.                                                    *)
(*                                                                         *)
(* Spec is the session, on the first run of the application, with sends    *)
(* 2 ms apart.  SessionSpec is the session with the imperative handle of   *)
(* the component (clearChat) in use.  ClockSpec is the session with        *)
(* nothing assumed about the time between sends.  HistorySpec is a send    *)
(* late in a session, with a long transcript.  AppSpec is the application  *)
(* (src/src/ExcomApp.js) with its Settings tab (src/unnamed/part_003).     *)
(* StreamSpec is the read loop of one exchange fed with chunks that end    *)
(* anywhere, in the middle of a line too, and RecordSpec the same loop fed *)
(* with records that are no events.  RenderSpec follows one assistant turn *)
(* with its text resolved to pieces, and what StreamingMessage,            *)
(* EnhancedMarkdown (src/unnamed/part_005) and StreamingCodeBlock          *)
(* (src/unnamed/part_009) render for it; BlockSpec is RenderSpec for       *)
(* longer texts, whose fence markers arrive whole.  getAccessToken is that *)
(* of src/src/components/AuthProvider.js.                                  *)
(***************************************************************************)
EXTENDS Naturals, Integers, Sequences, FiniteSets, TLC

VARIABLES
    messages,                \* useState messages (line 121)
    inputMessage,            \* useState inputMessage (line 124)
    isTyping,                \* useState isTyping (line 125)
    currentAbortController,  \* useState currentAbortController (line 126): 0 is null, e is the controller made by exchange e
    ex,                      \* the invocations of handleStreamedResponse: their position and locals
    nex,                     \* number of invocations of handleStreamedResponse so far
    now,                     \* Date.now()
    sent,                    \* history: the content deltas the network has delivered to each exchange
    clean,                   \* history: the lines delivered to the exchange were events (JSON objects), with nothing after a done event
    used,                    \* history: size of the behaviour so far, 2 for a send that was accepted, 1 for a line the network delivered, 1 for a clearChat
    app,                     \* ExcomApp: its settings state (ExcomApp.js line 15), the excomSettings entry of localStorage, its activeTab (line 10)
    view                     \* one assistant turn with its text resolved to pieces, the stored settings, what StreamingMessage renders for them, and the state of the StreamingCodeBlock of one code node

chatVars == <<messages, inputMessage, isTyping, currentAbortController, ex, nex, now, sent, clean, used, app>>

vars == <<messages, inputMessage, isTyping, currentAbortController, ex, nex, now, sent, clean, used, app, view>>

----------------------------------------------------------------------------
\* Bounds of the model

\* size of a behaviour: an accepted send counts 2, a line delivered by the
\* network 1, a clearChat 1
MaxSize == 6

\* the exchanges that ended before a send late in a session
MaxPairs == 6

----------------------------------------------------------------------------
\* Values

None == <<>>
Some(x) == <<x>>

Exchanges == 1..(MaxSize \div 2)

\* line 322-323
ErrorMessage == "Sorry, I encountered an error. Please try again."
\* line 309-310
StopAnnotation == "\n\n*[Generation stopped by user]*"
\* line 122
Greeting == "Hello! I'm your AI assistant. How can I help you today?"

\* by how much Date.now() can differ between two sends (line 388), and
\* between the two readings of one send (lines 388 and 164)
Elapsed == {0, 1, 2}
Ticks == {0, 1}

\* what the user can have in the textarea (line 489)
Inputs == {"", "  ", "hi"}

\* String.prototype.trim on the inputs above (line 385)
Trim(s) == IF s = "  " THEN "" ELSE s

\* a content delta longer than ErrorMessage, and a short one
LongDelta == "The quick brown fox jumps over the lazy dog, twice over."
ContentDeltas == {"Hi", LongDelta}

\* what the server puts in the content of an error event: a message of its
\* own, and the text that stopGeneration gives as the reason of an abort
ErrorPayloads == {"boom", "user_stopped"}

\* A line of the response body, without its newline.  data is whether the
\* line starts with 'data: '; json is what JSON.parse makes of the rest:
\* "object" (an event), "sentinel" (the text [DONE]), "malformed" (SyntaxError),
\* "null" (the JSON text null), "value" (a JSON number, string, boolean or
\* array, whose property type is undefined).
\* input is what parsed.tool_input || parsed.input gives (line 249).
Line(json, type, content, tool, isErr) ==
    [data |-> TRUE, json |-> json, type |-> type, content |-> content, tool |-> tool, is_error |-> isErr,
     input |-> ""]

\* a tool_call event with its input
ToolCall(tool, input) == [Line("object", "tool_call", "", tool, FALSE) EXCEPT !.input = input]

Event(type, content) == Line("object", type, content, "", FALSE)

Lines ==
    {Event("content", c) : c \in ContentDeltas}
    \cup {Event("thinking", "plan"), Event("reasoning", "plan")}
    \cup {ToolCall("search", "q")}
    \cup {Line("object", "tool_result", "", "", b) : b \in BOOLEAN}
    \cup {Event("status", ""), Event("tool_complete", ""), Event("done", "")}
    \cup {Event("error", c) : c \in ErrorPayloads}
    \cup {Line("sentinel", "", "", "", FALSE), Line("malformed", "", "", "", FALSE)}

\* a network chunk: one line, or two lines
Chunks == {<<l>> : l \in Lines} \cup {<<l, m>> : l, m \in Lines}

\* the bytes of a network chunk, which need not end where a line ends: rest,
\* the bytes up to the newline of the line whose beginning arrived before;
\* lines, whole lines, each with its newline; tail, the beginning of a
\* further line, without its newline
Bytes(rest, lines, tail) == [rest |-> rest, lines |-> lines, tail |-> tail]

\* data records that JSON.parse accepts and that are no event the loop knows:
\* null, another value that is not an object, an object with a type that is
\* not recognized, an object without type (type is undefined, "" here)
OtherRecords ==
    {Line("null", "", "", "", FALSE), Line("value", "", "", "", FALSE),
     Event("ping", ""), Event("", "")}

\* chunks of one or two whole lines that hold such records, among events
RecordLines ==
    OtherRecords
    \cup {Event("content", "Hi"), Event("done", ""), Event("error", "boom"),
          Line("malformed", "", "", "", FALSE)}
RecordChunks == {<<l>> : l \in RecordLines} \cup {<<l, m>> : l, m \in RecordLines}

\* the lines that the chunks of ByteChunks are cut from
StreamLines ==
    {Event("content", "Hi"), Event("thinking", "plan"), Event("done", ""), Event("error", "boom"),
     Line("sentinel", "", "", "", FALSE), Line("malformed", "", "", "", FALSE)}

ByteChunks ==
    {Bytes(rest, lines, tail) :
        rest \in BOOLEAN,
        lines \in {<<>>} \cup {<<l>> : l \in StreamLines},
        tail \in {None} \cup {Some(l) : l \in StreamLines}}

----------------------------------------------------------------------------
\* Messages (the turns of the transcript)

\* the user's turn (lines 387-392)
UserMessage(id, text) ==
    [id |-> id, sender |-> "user", text |-> Some(text), streamingText |-> None,
     completedItems |-> None, isStreaming |-> FALSE, isError |-> FALSE]

\* the initial empty bot message (lines 200-207)
BotMessage(id) ==
    [id |-> id, sender |-> "bot", text |-> None, streamingText |-> Some(""),
     completedItems |-> Some(<<>>), isStreaming |-> TRUE, isError |-> FALSE]

\* the greeting the transcript starts with (lines 121-123)
InitialMessages ==
    << [id |-> 1, sender |-> "bot", text |-> Some(Greeting), streamingText |-> None,
        completedItems |-> None, isStreaming |-> FALSE, isError |-> FALSE] >>

\* the transcript clearChat sets (lines 428-433)
ClearedGreeting == "Chat cleared. How can I help you?"
ClearedMessages ==
    << [id |-> 1, sender |-> "bot", text |-> Some(ClearedGreeting), streamingText |-> None,
        completedItems |-> None, isStreaming |-> FALSE, isError |-> FALSE] >>

\* { ...msg, field: value, ... }: msg with the fields of patch replaced
Spread(msg, patch) ==
    [f \in DOMAIN msg |-> IF f \in DOMAIN patch THEN patch[f] ELSE msg[f]]

\* the map of setMessages without the test msg.id === botMessageId on bot messages
MapMessagesOfBot(msgs, id, patch) ==
    [i \in DOMAIN msgs |-> IF msgs[i].sender = "bot" THEN Spread(msgs[i], patch) ELSE msgs[i]]

\* setMessages(prev => prev.map(msg => msg.id === id ? { ...msg, ...patch } : msg))
MapMessages(msgs, id, patch) ==
    [i \in DOMAIN msgs |-> IF msgs[i].id = id THEN Spread(msgs[i], patch) ELSE msgs[i]]

----------------------------------------------------------------------------
\* The blocks a turn of the assistant is rendered as (lines 5-35, 73-109)

\* a JavaScript string that is neither undefined nor empty
TruthyText(o) == o # None /\ o[1] # ""

\* the StreamingText element of lines 79-85 and 87-93
TextBlock(text, isStreaming) ==
    [block |-> "StreamingText", content |-> text, name |-> "", isStreaming |-> isStreaming,
     dots |-> FALSE]

\* lines 11-17 and 18-30: the annotation of a thinking step, of a tool call
Annotation(item) ==
    IF item.type = "thinking"
    THEN [block |-> "inline-thinking", content |-> item.content, name |-> "",
          isStreaming |-> FALSE, dots |-> FALSE]
    ELSE [block |-> "tool-inline-text", content |-> "", name |-> item.name,
          isStreaming |-> FALSE, dots |-> item.isProcessing]

\* lines 10-32: items.map, from item i on; an item of another type gives null
RECURSIVE CompletedItemsFrom(_, _)
CompletedItemsFrom(items, i) ==
    IF i > Len(items) THEN <<>>
    ELSE (IF items[i].type \in {"thinking", "tool_call"} THEN <<Annotation(items[i])>> ELSE <<>>)
         \o CompletedItemsFrom(items, i + 1)

\* lines 5-35
CompletedItems(items) ==
    IF items = None \/ items[1] = <<>> THEN <<>> ELSE CompletedItemsFrom(items[1], 1)

\* StreamingMessage without the test !message.text of line 87
StreamingMessageBoth(message) ==
    (IF TruthyText(message.text) THEN <<TextBlock(message.text[1], FALSE)>> ELSE <<>>)
    \o (IF TruthyText(message.streamingText)
        THEN <<TextBlock(message.streamingText[1], message.isStreaming)>>
        ELSE <<>>)
    \o CompletedItems(message.completedItems)

\* lines 73-109: the children of the fragment, in order; the fallback of lines
\* 101-107 renders message.text, which is then undefined or empty
StreamingMessage(message) ==
    IF message.completedItems # None \/ message.streamingText # None \/ TruthyText(message.text)
    THEN (IF TruthyText(message.text) THEN <<TextBlock(message.text[1], FALSE)>> ELSE <<>>)
         \o (IF TruthyText(message.streamingText) /\ ~TruthyText(message.text)
             THEN <<TextBlock(message.streamingText[1], message.isStreaming)>>
             ELSE <<>>)
         \o CompletedItems(message.completedItems)
    ELSE <<[block |-> "EnhancedMarkdown", content |-> "", name |-> "", isStreaming |-> FALSE,
            dots |-> FALSE]>>

----------------------------------------------------------------------------
\* Sub-items of a turn

\* line 237
ThinkingItem(content) ==
    [type |-> "thinking", content |-> content, name |-> "", input |-> "", isProcessing |-> FALSE]

\* lines 246-252: name: parsed.tool || 'tool', input: parsed.tool_input || parsed.input
ToolInfo(tool, input) ==
    [type |-> "tool_call", content |-> "", name |-> (IF tool = "" THEN "tool" ELSE tool),
     input |-> input, isProcessing |-> TRUE]

\* lines 261-266, the loop from i down to 1
RECURSIVE ResolveFrom(_, _)
ResolveFrom(items, i) ==
    IF i < 1 THEN items
    ELSE IF items[i].type = "tool_call" /\ items[i].isProcessing
         THEN [items EXCEPT ![i].isProcessing = FALSE]
         ELSE ResolveFrom(items, i - 1)

\* the loop of lines 261-266 run from the first item up
RECURSIVE ResolveUpFrom(_, _)
ResolveUpFrom(items, i) ==
    IF i > Len(items) THEN items
    ELSE IF items[i].type = "tool_call" /\ items[i].isProcessing
         THEN [items EXCEPT ![i].isProcessing = FALSE]
         ELSE ResolveUpFrom(items, i + 1)

\* ResolveLast with the scan started at the wrong end
ResolveFirst(items) == ResolveUpFrom(items, 1)

\* lines 261-266: mark the last tool call that is still processing as completed
ResolveLast(items) == ResolveFrom(items, Len(items))

----------------------------------------------------------------------------
\* Errors: what a catch block can see of a thrown value ("" is undefined)

Err(name, cause, message) == [name |-> name, cause |-> cause, message |-> message]

\* line 192
NotOkError == Err("Error", "", "Stream response not ok")
\* fetch or reader.read failing on the network
NetworkError == Err("TypeError", "", "Failed to fetch")

\* What fetch / reader.read reject with after abort('user_stopped') (line 151).
\* The value is the platform's choice: the reason itself (the string
\* 'user_stopped', which has no name, cause or message: Fetch standard, "abort
\* the fetch() call"), an AbortError that carries the reason, or an AbortError
\* with the platform's own message (platforms that ignore the argument).
AbortRejections ==
    { Err("", "", ""),
      Err("AbortError", "", "user_stopped"),
      Err("AbortError", "", "The user aborted a request.") }

----------------------------------------------------------------------------
\* The locals of handleStreamedResponse while it processes the lines of a chunk:
\* acc is accumulatedText, items is completedItems, msgs is the messages state,
\* exit is how the line loop goes on: "next" (next line), "break" (line 221),
\* "return" (line 289), "throw" (line 275, rethrown at 295) with error err.

Locals(acc, items, msgs, exit, err) ==
    [acc |-> acc, items |-> items, msgs |-> msgs, exit |-> exit, err |-> err]

NoErr == Err("", "", "")

\* OnContent with = for +=
OnContentAssign(S, id, line) ==
    [S EXCEPT !.acc = line.content,
              !.msgs = MapMessages(S.msgs, id, [streamingText |-> Some(line.content)])]

\* lines 227-234
OnContent(S, id, line) ==
    LET acc == S.acc \o line.content IN
    [S EXCEPT !.acc = acc,
              !.msgs = MapMessages(S.msgs, id, [streamingText |-> Some(acc)])]

\* lines 235-243
OnThinking(S, id, line) ==
    LET items == Append(S.items, ThinkingItem(line.content)) IN
    [S EXCEPT !.items = items,
              !.msgs = MapMessages(S.msgs, id, [completedItems |-> Some(items)])]

\* OnToolCall with unshift for push: the new item goes in front
OnToolCallInFront(S, id, line) ==
    LET items == <<ToolInfo(line.tool, line.input)>> \o S.items IN
    [S EXCEPT !.items = items,
              !.msgs = MapMessages(S.msgs, id, [completedItems |-> Some(items)])]

\* lines 244-258
OnToolCall(S, id, line) ==
    LET items == Append(S.items, ToolInfo(line.tool, line.input)) IN
    [S EXCEPT !.items = items,
              !.msgs = MapMessages(S.msgs, id, [completedItems |-> Some(items)])]

\* lines 259-271
OnToolResult(S, id, line) ==
    LET items == ResolveLast(S.items) IN
    [S EXCEPT !.items = items,
              !.msgs = MapMessages(S.msgs, id, [completedItems |-> Some(items)])]

\* a status or tool_complete event written into the text of the turn
OnStatusShown(S, id, line) ==
    [S EXCEPT !.msgs = MapMessages(S.msgs, id, [streamingText |-> Some(line.type)])]

\* lines 272-273: status and tool_complete events are ignored
OnStatus(S, id, line) == S

\* lines 274-275
OnError(S, id, line) ==
    [S EXCEPT !.exit = "throw", !.err = Err("Error", "", line.content)]

\* OnDone without the return of line 289: the line loop goes on
OnDoneContinues(S, id, line) ==
    [S EXCEPT !.msgs = MapMessages(S.msgs, id,
                          [text |-> Some(S.acc),
                           streamingText |-> Some(S.acc),
                           isStreaming |-> FALSE])]

\* lines 276-290
OnDone(S, id, line) ==
    [S EXCEPT !.exit = "return",
              !.msgs = MapMessages(S.msgs, id,
                          [text |-> Some(S.acc),
                           streamingText |-> Some(S.acc),
                           isStreaming |-> FALSE])]

\* lines 225-227 and 291-296: JSON.parse gives null, reading parsed.type throws
\* a TypeError, and the inner catch throws again what is no SyntaxError
OnNull(S, id, line) ==
    [S EXCEPT !.exit = "throw",
              !.err = Err("TypeError", "", "Cannot read properties of null (reading 'type')")]

\* ApplyLine with the inner catch (lines 291-297) rethrowing the SyntaxError
ApplyLineRethrows(S, id, line) ==
    IF ~line.data THEN S
    ELSE IF line.json = "sentinel" THEN [S EXCEPT !.exit = "break"]
    ELSE IF line.json = "malformed"
         THEN [S EXCEPT !.exit = "throw", !.err = Err("SyntaxError", "", "Unexpected token")]
    ELSE IF line.json = "null" THEN OnNull(S, id, line)
    ELSE IF line.json = "value" THEN S
    ELSE IF line.type = "content" THEN OnContent(S, id, line)
    ELSE IF line.type \in {"thinking", "reasoning"} THEN OnThinking(S, id, line)
    ELSE IF line.type = "tool_call" THEN OnToolCall(S, id, line)
    ELSE IF line.type = "tool_result" THEN OnToolResult(S, id, line)
    ELSE IF line.type \in {"tool_complete", "status"} THEN S
    ELSE IF line.type = "error" THEN OnError(S, id, line)
    ELSE IF line.type = "done" THEN OnDone(S, id, line)
    ELSE S

\* lines 218-298: one line of the chunk
ApplyLine(S, id, line) ==
    IF ~line.data THEN S
    ELSE IF line.json = "sentinel" THEN [S EXCEPT !.exit = "break"]
    ELSE IF line.json = "malformed" THEN S
    ELSE IF line.json = "null" THEN OnNull(S, id, line)
    ELSE IF line.json = "value" THEN S
    ELSE IF line.type = "content" THEN OnContent(S, id, line)
    ELSE IF line.type \in {"thinking", "reasoning"} THEN OnThinking(S, id, line)
    ELSE IF line.type = "tool_call" THEN OnToolCall(S, id, line)
    ELSE IF line.type = "tool_result" THEN OnToolResult(S, id, line)
    ELSE IF line.type \in {"tool_complete", "status"} THEN OnStatus(S, id, line)
    ELSE IF line.type = "error" THEN OnError(S, id, line)
    ELSE IF line.type = "done" THEN OnDone(S, id, line)
    ELSE S

\* lines 217-299: for (const line of lines), from line i on
RECURSIVE ProcessLines(_, _, _, _)
ProcessLines(S, id, lines, i) ==
    IF i > Len(lines) \/ S.exit # "next" THEN S
    ELSE ProcessLines(ApplyLine(S, id, lines[i]), id, lines, i + 1)

\* CatchBlock looking at the reason of the error only, not at its name
CatchBlockByReason(msgs, id, acc, error) ==
    LET reason == IF error.cause # "" THEN error.cause ELSE error.message IN
    IF reason = "user_stopped"
    THEN MapMessages(msgs, id,
             [streamingText |-> Some(acc \o StopAnnotation),
              text |-> Some(acc \o StopAnnotation),
              isStreaming |-> FALSE])
    ELSE MapMessages(msgs, id,
             [streamingText |-> Some(ErrorMessage),
              text |-> Some(ErrorMessage),
              isError |-> TRUE,
              isStreaming |-> FALSE])

\* lines 301-329: the catch block
CatchBlock(msgs, id, acc, error) ==
    IF error.name = "AbortError"
    THEN LET reason == IF error.cause # "" THEN error.cause ELSE error.message IN
         IF reason = "user_stopped"
         THEN MapMessages(msgs, id,
                  [streamingText |-> Some(acc \o StopAnnotation),
                   text |-> Some(acc \o StopAnnotation),
                   isStreaming |-> FALSE])
         ELSE msgs
    ELSE MapMessages(msgs, id,
             [streamingText |-> Some(ErrorMessage),
              text |-> Some(ErrorMessage),
              isError |-> TRUE,
              isStreaming |-> FALSE])

----------------------------------------------------------------------------
\* Token acquisition (src/src/components/AuthProvider.js, lines 109-132)

\* the access tokens MSAL can hand out: an empty one, and a real one
Tokens == {"", "eyJ0eXAi"}

\* how acquireTokenSilent / acquireTokenPopup settle: resolved with a response
\* that carries accessToken, or rejected
Resolved(token) == [ok |-> TRUE, accessToken |-> token]
Rejected == [ok |-> FALSE, accessToken |-> ""]
Acquisitions == {Rejected} \cup {Resolved(t) : t \in Tokens}

\* what getAccessToken meets: the number of signed-in accounts, and how the
\* silent and the popup acquisition would settle
AuthStates == [accounts : 0..1, silent : Acquisitions, popup : Acquisitions]

\* how an async function settles: it returns value, or it throws error
Returns(value) == [kind |-> "return", value |-> value, error |-> NoErr]
Throws(error) == [kind |-> "throw", value |-> None, error |-> error]

\* getAccessToken without the catch around acquireTokenPopup
GetAccessTokenNoPopupCatch(auth) ==
    IF auth.accounts = 0 THEN Returns(None)
    ELSE IF auth.silent.ok THEN Returns(Some(auth.silent.accessToken))
    ELSE IF auth.popup.ok THEN Returns(Some(auth.popup.accessToken))
    ELSE Throws(Err("BrowserAuthError", "", "user_cancelled"))

\* AuthProvider.js lines 109-132: getAccessToken; None is null
GetAccessToken(auth) ==
    IF auth.accounts = 0 THEN Returns(None)
    ELSE IF auth.silent.ok THEN Returns(Some(auth.silent.accessToken))
    ELSE IF auth.popup.ok THEN Returns(Some(auth.popup.accessToken))
    ELSE Returns(None)

\* Headers with the Authorization header set whatever the token is
HeadersAlways(token) ==
    [Authorization |-> Some("Bearer " \o (IF token = None THEN "null" ELSE token[1]))]

\* lines 171-176: the headers of the request (Content-Type is left out);
\* if (token) is false for null and for the empty string
Headers(token) ==
    [Authorization |-> IF token # None /\ token[1] # ""
                       THEN Some("Bearer " \o token[1])
                       ELSE None]

----------------------------------------------------------------------------
\* Exchanges

\* Slice taking the first n elements of msgs: msgs.slice(0, n)
SliceFromStart(msgs, n) ==
    IF Len(msgs) <= n THEN msgs ELSE SubSeq(msgs, 1, n)

\* line 186: msgs.slice(-n), the last n elements of msgs, or all of them
Slice(msgs, n) ==
    IF Len(msgs) <= n THEN msgs ELSE SubSeq(msgs, Len(msgs) - n + 1, Len(msgs))

\* lines 184-187: the body of the request, before JSON.stringify.  msgs is the
\* messages of the render whose handleSendMessage runs (line 121 as closed
\* over at line 157), currentMessage the argument of line 411.
Body(currentMessage, msgs) ==
    [message |-> currentMessage, conversation_history |-> Slice(msgs, 10)]

\* lines 179-189: what fetch is called with (method and signal left out)
Request(apiUrl, headers, body) ==
    [url |-> apiUrl \o "/api/chat/stream", headers |-> headers, body |-> body]

\* an invocation that has not started.  messages and currentMessage are what
\* the invocation closes over: the messages state of the render in which the
\* send was made, and the text sent (kept while it awaits getAccessToken,
\* the request is built from them at line 184).  request is the request
\* it passed to fetch (line 181), while fetch has not settled.  outcome,
\* skipped, ignored and sentinel are history: how the invocation ended, how
\* many of the lines the network delivered to it were data records that
\* JSON.parse rejects, whether one of them was a status or tool_complete
\* event, and whether its line loop has read a [DONE] sentinel (line 220).  buffer is the
\* local of line 167: None is the empty string, Some(l) the beginning of the
\* line l, received without its newline.
NoExchange ==
    [pc |-> "none", aborted |-> FALSE, botMessageId |-> 0, accumulatedText |-> "",
     messages |-> <<>>, currentMessage |-> "",
     completedItems |-> <<>>, request |-> None, outcome |-> "", skipped |-> 0,
     ignored |-> FALSE, sentinel |-> FALSE, buffer |-> None]

\* an exchange is in flight from its call to its return
InFlight(e) == ex[e].pc \in {"token", "fetch", "read"}

\* Listening with the signal not reaching the body reader
ListeningFetchOnly(e) == ex[e].pc = "fetch"

\* line 188, signal: abortController.signal: the fetch and the body it returns
\* are rejected by abort(); the await of getAccessToken (line 170) is not
Listening(e) == ex[e].pc \in {"fetch", "read"}

\* Return with the controller cleared in the catch block only, not in finally
ReturnNoFinally(x, e, msgs, outcome) ==
    /\ messages' = msgs
    /\ ex' = [x EXCEPT ![e].pc = "returned", ![e].outcome = outcome, ![e].request = None,
                      ![e].messages = <<>>, ![e].currentMessage = ""]
    /\ currentAbortController' = IF outcome \in {"done", "closed"} THEN currentAbortController ELSE 0
    /\ isTyping' = FALSE

\* lines 330-332 and 415-417: handleStreamedResponse returns through its finally
\* block, and handleSendMessage, which awaited it, through its own.  x is ex
\* with the locals of e as it leaves them, msgs the messages state it leaves,
\* outcome how it ended (history).
Return(x, e, msgs, outcome) ==
    /\ messages' = msgs
    /\ ex' = [x EXCEPT ![e].pc = "returned", ![e].outcome = outcome, ![e].request = None,
                      ![e].messages = <<>>, ![e].currentMessage = ""]
    /\ currentAbortController' = 0
    /\ isTyping' = FALSE

\* lines 301-332: error is thrown inside the try block of exchange e
Throw(x, e, msgs, error, outcome) ==
    Return(x, e, CatchBlock(msgs, x[e].botMessageId, x[e].accumulatedText, error), outcome)

\* history: the content deltas among the lines of a chunk, in order
RECURSIVE Deltas(_, _)
Deltas(chunk, i) ==
    IF i > Len(chunk) THEN <<>>
    ELSE (IF chunk[i].json = "object" /\ chunk[i].type = "content" THEN <<chunk[i].content>> ELSE <<>>)
         \o Deltas(chunk, i + 1)

\* history: the chunk without its records that are not parseable JSON
WithoutMalformed(chunk) == SelectSeq(chunk, LAMBDA l : l.json # "malformed")

\* history: the chunk without its status and tool_complete events
WithoutIgnored(chunk) ==
    SelectSeq(chunk, LAMBDA l : ~(l.json = "object" /\ l.type \in {"status", "tool_complete"}))

\* history: the lines of a chunk are events, and a done event is the last of them
EventsOnly(chunk) ==
    \A i \in DOMAIN chunk :
        /\ chunk[i].json = "object"
        /\ chunk[i].type = "done" => i = Len(chunk)

----------------------------------------------------------------------------
\* Rendering of a turn (StreamingMessage.js lines 39-112, EnhancedMarkdown.js =
\* src/unnamed/part_005).  Here the text of a turn is a sequence of pieces: the
\* piece Backtick is one backtick, the piece "x" is one or more characters
\* that the model streamed, none of them a backtick or a #, and the piece
\* "note" is text that the client writes itself (the stop annotation, the
\* failure message), which holds no backtick, no # and no code.

\* longest streamed text, in pieces
MaxText == 7

\* longest streamed text, in pieces, when fence markers arrive whole
MaxBlockText == 11

Backtick == "backtick"
Pieces == {Backtick, "x"}

\* a fence marker, and the deltas of a text whose markers arrive whole
Fence == <<Backtick, Backtick, Backtick>>
BlockDeltas == {<<"x">>, Fence}

\* what the user can have in the API URL field (src/unnamed/part_003 lines 87-93)
ApiUrls == {"http://localhost:9000", "https://chat.example"}

\* ExcomApp.js lines 15-24: the settings are what localStorage holds under
\* excomSettings, else the defaults.  The defaults (lines 20-23) do not have
\* autoRenderHtml, stored settings may (None is undefined).
DefaultSettings == [apiUrl |-> "http://localhost:9000", streaming |-> TRUE, autoRenderHtml |-> None]
StoredSettings ==
    {[apiUrl |-> u, streaming |-> s, autoRenderHtml |-> a] :
        u \in ApiUrls, s \in BOOLEAN, a \in {None, Some(FALSE), Some(TRUE)}}

\* the stored settings as far as the rendering of a turn reads them
\* (StreamingMessage.js lines 83, 91, 105: settings.autoRenderHtml only)
RenderSettings == {[DefaultSettings EXCEPT !.autoRenderHtml = a] : a \in {None, Some(FALSE), Some(TRUE)}}

\* src/unnamed/part_003 lines 73-76: the object resetToDefaults sets
ResetDefaults == [apiUrl |-> "http://localhost:9000", streaming |-> FALSE, autoRenderHtml |-> None]

\* ExcomApp.js lines 15-24: the initial settings state; stored is the
\* excomSettings entry of localStorage, None if there is none.  JSON.stringify
\* leaves out the fields that are undefined and JSON.parse gives back the
\* strings and booleans of the others, so the entry is held as the object.
LoadSettings(stored) == IF stored # None THEN stored[1] ELSE DefaultSettings

\* ExcomApp.js lines 10-29: ExcomApp after it has mounted; the effect of lines
\* 27-29 has stored the settings
Mount(stored) ==
    [settings |-> LoadSettings(stored), localStorage |-> Some(LoadSettings(stored)), activeTab |-> "chat"]

\* the application on its first run, nothing stored
FirstRun == Mount(None)

\* lines 200-207 with the text in pieces: the turn as it is created
NewTurn == [text |-> None, streamingText |-> Some(<<>>), isStreaming |-> TRUE, isError |-> FALSE]

\* lines 309-310 and 322-323 in pieces: neither text holds a backtick or a #
StopAnnotationPieces == <<"note">>
ErrorMessagePieces == <<"note">>

\* What ReactMarkdown hands to the code component (part_005 lines 24-27) for a
\* code node of the text: inline or not, the language of its className, and
\* whether its content matches the pattern of line 33.
Block(inline, language, htmlContent) ==
    [inline |-> inline, language |-> language, htmlContent |-> htmlContent]
Languages == {"", "html", "HTM", "js"}
Blocks == {Block(i, l, h) : i \in BOOLEAN, l \in Languages, h \in BOOLEAN}

\* The code nodes ReactMarkdown can find in content, of which one is followed
\* (None when it finds none).  Inline code takes backticks; a code block takes
\* a fence of backticks, or a fence of tildes or an indentation, which lie in
\* streamed text; a language tag and HTML content are streamed text.
CodeNodes(content) ==
    LET hasBacktick == \E i \in DOMAIN content : content[i] = Backtick
        hasText == \E i \in DOMAIN content : content[i] = "x"
        hasFence == \E i \in 1..(Len(content) - 2) :
                        content[i] = Backtick /\ content[i + 1] = Backtick /\ content[i + 2] = Backtick
    IN {None} \cup
       {Some(b) : b \in {b \in Blocks :
            IF b.inline THEN hasBacktick /\ b.language = "" /\ ~b.htmlContent
            ELSE /\ hasFence \/ hasText
                 /\ (b.language # "" \/ b.htmlContent) => hasText}}

\* the number of fence markers of a text: every maximal run of k backticks
\* holds k \div 3 of them (run is the length of the run that ends before piece i)
RECURSIVE MarkersFrom(_, _, _)
MarkersFrom(content, i, run) ==
    IF i > Len(content) THEN run \div 3
    ELSE IF content[i] = Backtick THEN MarkersFrom(content, i + 1, run + 1)
    ELSE (run \div 3) + MarkersFrom(content, i + 1, 0)

Markers(content) == MarkersFrom(content, 1, 0)

\* Where the code node followed lies in content: it is inline code; or a fenced
\* block with both its fences, which needs two markers; or the fenced block
\* that the last marker opens, when the markers are odd; or a block without
\* backtick fences (tildes, indentation).
Positions(content, block) ==
    IF block = None THEN {"none"}
    ELSE IF block[1].inline THEN {"inline"}
    ELSE {p \in {"closed", "open", "other"} :
             /\ p = "closed" => Markers(content) >= 2
             /\ p = "open" => Markers(content) % 2 = 1
             /\ p = "other" => \E j \in DOMAIN content : content[j] = "x"}

\* String.prototype.toLowerCase on the languages above (part_005 line 32)
ToLowerCase(language) == IF language = "HTM" THEN "htm" ELSE language

\* content.includes(fence), fence being three backticks
IncludesFence(content) ==
    \E i \in 1..(Len(content) - 2) :
        content[i] = Backtick /\ content[i + 1] = Backtick /\ content[i + 2] = Backtick

\* content.split(fence), from piece i on with part the pieces since the last match
RECURSIVE SplitFrom(_, _, _)
SplitFrom(content, i, part) ==
    IF i > Len(content) THEN <<part>>
    ELSE IF i + 2 <= Len(content)
            /\ content[i] = Backtick /\ content[i + 1] = Backtick /\ content[i + 2] = Backtick
         THEN <<part>> \o SplitFrom(content, i + 3, <<>>)
         ELSE SplitFrom(content, i + 1, Append(part, content[i]))

Split(content) == SplitFrom(content, 1, <<>>)

\* HasIncompleteCodeBlock with the parity of the number of parts reversed
HasIncompleteCodeBlockOddParts(content, isStreaming) ==
    isStreaming /\ IncludesFence(content) /\ Len(Split(content)) % 2 = 1

\* part_005 lines 17-18
HasIncompleteCodeBlock(content, isStreaming) ==
    isStreaming /\ IncludesFence(content) /\ Len(Split(content)) % 2 = 0

\* part_005 line 21: !isStreaming && autoRenderHtml, undefined being falsy
ShouldRenderHtml(isStreaming, autoRenderHtml) ==
    ~isStreaming /\ autoRenderHtml = Some(TRUE)

\* part_005 lines 32-33
IsHtmlByLanguage(block) == block.language # "" /\ ToLowerCase(block.language) \in {"html", "htm"}
IsHtmlByContent(block) == block.language = "" /\ block.htmlContent

\* no code node is followed
NoElement == [element |-> "none", language |-> "", isStreaming |-> FALSE]

\* part_005 lines 24-58: the element the code component returns for block
CodeElement(content, isStreaming, autoRenderHtml, block) ==
    IF block.inline THEN [element |-> "code", language |-> "", isStreaming |-> FALSE]
    ELSE IF ShouldRenderHtml(isStreaming, autoRenderHtml)
            /\ (IsHtmlByLanguage(block) \/ IsHtmlByContent(block))
         THEN [element |-> "HtmlPreview", language |-> "", isStreaming |-> FALSE]
         ELSE [element |-> "StreamingCodeBlock",
               language |-> IF IsHtmlByLanguage(block) \/ IsHtmlByContent(block)
                            THEN "html" ELSE block.language,
               isStreaming |-> HasIncompleteCodeBlock(content, isStreaming)]

\* what is rendered when nothing is
NoRender ==
    [component |-> "none", content |-> <<>>, isStreaming |-> FALSE,
     hasIncompleteCodeBlock |-> FALSE, block |-> None, code |-> NoElement]

\* StreamingMessage.js lines 40-68: StreamingText renders a plain div while
\* streaming text that has no backtick (and no #), else EnhancedMarkdown, of
\* which are kept the props, hasIncompleteCodeBlock and the element for block
StreamingText(text, isStreaming, autoRenderHtml, block) ==
    IF ~isStreaming \/ \E i \in DOMAIN text : text[i] = Backtick
    THEN [component |-> "EnhancedMarkdown", content |-> text, isStreaming |-> isStreaming,
          hasIncompleteCodeBlock |-> HasIncompleteCodeBlock(text, isStreaming),
          block |-> block,
          code |-> IF block = None THEN NoElement
                   ELSE CodeElement(text, isStreaming, autoRenderHtml, block[1])]
    ELSE [NoRender EXCEPT !.component = "div", !.content = text, !.isStreaming = isStreaming]

\* a string that may be undefined is truthy when it is defined and not empty
Truthy(o) == o # None /\ o[1] # <<>>

\* StreamingMessage.js lines 73-98: the text if it exists, else the streaming text
RenderTurn(message, settings, block) ==
    IF Truthy(message.text)
    THEN StreamingText(message.text[1], FALSE, settings.autoRenderHtml, block)
    ELSE IF Truthy(message.streamingText)
    THEN StreamingText(message.streamingText[1], message.isStreaming, settings.autoRenderHtml, block)
    ELSE NoRender

\* the text of the turn that is shown (lines 79 and 87)
Shown(message) ==
    IF Truthy(message.text) THEN message.text[1]
    ELSE IF Truthy(message.streamingText) THEN message.streamingText[1]
    ELSE <<>>

\* The state of the StreamingCodeBlock that shows the code node followed
\* (src/unnamed/part_009 lines 6-20): whether one is mounted, its showFormatted,
\* and whether its timer of 300 ms is pending.
NoInstance == [mounted |-> FALSE, showFormatted |-> FALSE, timer |-> FALSE]

\* part_009 lines 6 and 9-20: useState(!isStreaming), then the effect after
\* the first render, which starts the timer when isStreaming is false
Mounted(isStreaming) ==
    [mounted |-> TRUE, showFormatted |-> ~isStreaming, timer |-> ~isStreaming]

\* part_009 lines 9-20: codeContent or isStreaming has changed; the cleanup of
\* the last effect clears its timer and the effect runs again
Updated(cb, isStreaming) ==
    IF isStreaming THEN [cb EXCEPT !.showFormatted = FALSE, !.timer = FALSE]
    ELSE [cb EXCEPT !.timer = TRUE]

\* StreamingMessage.js lines 79 and 87: the child of the fragment that shows
\* the text, the first for message.text, the second for message.streamingText
Slot(message) ==
    IF Truthy(message.text) THEN 1 ELSE IF Truthy(message.streamingText) THEN 2 ELSE 0

\* the view of a turn: React renders again after every change of the turn
View(settings, message, block, position, cb) ==
    [settings |-> settings, message |-> message, rendered |-> RenderTurn(message, settings, block),
     position |-> position, cb |-> cb]

\* the nodes that can be followed in the text shown, each with its position
Nodes(message) ==
    UNION {{<<block, position>> : position \in Positions(Shown(message), block)} :
              block \in CodeNodes(Shown(message))}

\* the views of a turn rendered for the first time
Views(settings, message) ==
    {View(settings, message, n[1], n[2],
          IF RenderTurn(message, settings, n[1]).code.element = "StreamingCodeBlock"
          THEN Mounted(RenderTurn(message, settings, n[1]).code.isStreaming)
          ELSE NoInstance) : n \in Nodes(message)}

\* The StreamingCodeBlock after the view v is rendered again with message,
\* following node n.  The instance of v is kept only if the text is shown by
\* the same child of the fragment and the node is the same; then its effect
\* runs again if codeContent or isStreaming has changed.  Even then React
\* may mount a new instance: components (part_005 line 23) is a new object
\* with a new code function on every render of EnhancedMarkdown, and whether
\* ReactMarkdown takes that function for the same component is its affair.
Instances(v, message, n) ==
    LET r == RenderTurn(message, v.settings, n[1])
        kept == /\ v.cb.mounted
                /\ Slot(message) = Slot(v.message)
                /\ n[1] = v.rendered.block
                /\ n[2] = v.position \/ (v.position = "open" /\ n[2] = "closed")
    IN IF r.code.element # "StreamingCodeBlock" THEN {NoInstance}
       ELSE {Mounted(r.code.isStreaming)}
            \cup (IF kept THEN {Updated(v.cb, r.code.isStreaming)} ELSE {})
            \cup (IF kept /\ r.code.isStreaming = v.rendered.code.isStreaming THEN {v.cb} ELSE {})

\* the views of a turn rendered again
Rerendered(v, message) ==
    UNION {{View(v.settings, message, n[1], n[2], cb) : cb \in Instances(v, message, n)} :
              n \in Nodes(message)}

\* no turn is followed
NoView == View(DefaultSettings, [NewTurn EXCEPT !.isStreaming = FALSE], None, "none", NoInstance)

\* the turn is still fed by its exchange
Streaming(message) == message.isStreaming /\ message.text = None

\* lines 227-234: a content event appends the pieces delta
TurnDelta(delta) ==
    /\ Streaming(view.message)
    /\ view' \in Rerendered(view, [view.message EXCEPT !.streamingText = Some(@[1] \o delta)])
    /\ UNCHANGED chatVars

\* a content event appends the piece c
TurnContent(c) ==
    /\ Len(view.message.streamingText[1]) < MaxText
    /\ TurnDelta(<<c>>)

\* a content event appends a piece of text, or a whole fence marker
TurnBlockContent(delta) ==
    /\ Len(view.message.streamingText[1]) + Len(delta) <= MaxBlockText
    /\ TurnDelta(delta)

\* lines 276-290: the done event
TurnDone ==
    /\ Streaming(view.message)
    /\ view' \in Rerendered(view,
                            [view.message EXCEPT !.text = view.message.streamingText,
                                                 !.isStreaming = FALSE])
    /\ UNCHANGED chatVars

\* lines 302-315: the exchange is stopped
TurnStopped ==
    /\ Streaming(view.message)
    /\ LET acc == view.message.streamingText[1] IN
       view' \in Rerendered(view,
                            [view.message EXCEPT !.streamingText = Some(acc \o StopAnnotationPieces),
                                                 !.text = Some(acc \o StopAnnotationPieces),
                                                 !.isStreaming = FALSE])
    /\ UNCHANGED chatVars

\* lines 316-328: the exchange fails
TurnFailed ==
    /\ Streaming(view.message)
    /\ view' \in Rerendered(view,
                            [view.message EXCEPT !.streamingText = Some(ErrorMessagePieces),
                                                 !.text = Some(ErrorMessagePieces),
                                                 !.isError = TRUE,
                                                 !.isStreaming = FALSE])
    /\ UNCHANGED chatVars

\* part_009 lines 15-17: the timer of the StreamingCodeBlock fires
TimerFires ==
    /\ view.cb.timer
    /\ view' = [view EXCEPT !.cb.showFormatted = TRUE, !.cb.timer = FALSE]
    /\ UNCHANGED chatVars

----------------------------------------------------------------------------
\* Actions

\* line 489: the user edits the textarea
SetInputMessage(v) ==
    /\ inputMessage' = v
    /\ UNCHANGED <<messages, isTyping, currentAbortController, ex, nex, now, sent, clean, used, app, view>>

\* line 385: if (!inputMessage.trim() || isTyping) return;
SendAccepted(input) == ~(Trim(input) = "" \/ isTyping)

\* lines 402-403: const forceStreaming = true
ForceStreaming == TRUE

\* lines 157-170: handleStreamedResponse up to its first await, called at time
\* t with the messages and the input of the render
StreamedResponse(t) ==
    [NoExchange EXCEPT !.pc = "token", !.botMessageId = t + 1,
                       !.messages = messages, !.currentMessage = inputMessage]

\* lines 335-341: handleNormalResponse up to its first await.  Line 403 keeps
\* it from being called, and its later steps are not modelled.
NormalResponse ==
    [NoExchange EXCEPT !.pc = "normal", !.messages = messages, !.currentMessage = inputMessage]

\* lines 384-414 and 157-170: handleSendMessage up to the first await of the
\* handler it calls.  Date.now() reads elapsed more than at the last send when
\* the user's turn is made (line 388), and tick more than that when
\* handleStreamedResponse makes botMessageId (line 164).
\* The settings prop of Chat is app.settings; it does not change while
\* Chat is mounted (ExcomApp.js lines 143-147).
HandleSendMessageAt(elapsed, tick) ==
    /\ used + 2 <= MaxSize
    /\ IF ~SendAccepted(inputMessage)
       THEN UNCHANGED vars
       ELSE LET e == nex + 1
                t == now + elapsed
            IN /\ messages' = Append(messages, UserMessage(t, inputMessage))
               /\ inputMessage' = ""
               /\ isTyping' = TRUE
               /\ currentAbortController' = IF ForceStreaming THEN e ELSE currentAbortController
               /\ ex' = [ex EXCEPT ![e] = IF ForceStreaming THEN StreamedResponse(t + tick) ELSE NormalResponse]
               /\ nex' = e
               /\ now' = t + tick
               /\ used' = used + 2
               /\ UNCHANGED <<sent, clean, app, view>>

\* handleSendMessage in a session whose sends are 2 ms apart or more, each
\* made within one reading of the clock
HandleSendMessage == HandleSendMessageAt(2, 0)

\* StopGeneration without setCurrentAbortController(null)
StopGenerationKeepsController ==
    /\ IF currentAbortController = 0
       THEN UNCHANGED <<messages, isTyping, currentAbortController, ex>>
       ELSE LET e == currentAbortController
                x == [ex EXCEPT ![e].aborted = TRUE]
            IN IF Listening(e)
               THEN \E error \in AbortRejections : Throw(x, e, messages, error, "cancelled")
               ELSE /\ ex' = x
                    /\ isTyping' = FALSE
                    /\ UNCHANGED <<messages, currentAbortController>>
    /\ UNCHANGED <<inputMessage, nex, now, sent, clean, used, app, view>>

\* lines 149-155: stopGeneration.  abort() rejects the fetch or read the
\* exchange awaits, and its catch and finally blocks run before the next task.
StopGeneration ==
    /\ IF currentAbortController = 0
       THEN UNCHANGED <<messages, isTyping, currentAbortController, ex>>
       ELSE LET e == currentAbortController
                x == [ex EXCEPT ![e].aborted = TRUE]
            IN IF Listening(e)
               THEN \E error \in AbortRejections : Throw(x, e, messages, error, "cancelled")
               ELSE /\ ex' = x
                    /\ currentAbortController' = 0
                    /\ isTyping' = FALSE
                    /\ UNCHANGED messages
    /\ UNCHANGED <<inputMessage, nex, now, sent, clean, used, app, view>>

\* lines 170-189: getAccessToken settles and fetch is called; with the signal
\* already aborted fetch rejects at once and sends nothing
TokenResolved(e, auth) ==
    /\ ex[e].pc = "token"
    /\ LET token == GetAccessToken(auth) IN
       IF token.kind = "throw"
       THEN Throw(ex, e, messages, token.error, "token_failed")
       ELSE IF ex[e].aborted
       THEN \E error \in AbortRejections : Throw(ex, e, messages, error, "cancelled")
       ELSE /\ ex' = [ex EXCEPT ![e].pc = "fetch",
                                ![e].request = Some(Request(app.settings.apiUrl, Headers(token.value),
                                                            Body(ex[e].currentMessage, ex[e].messages))),
                                ![e].messages = <<>>, ![e].currentMessage = ""]
            /\ UNCHANGED <<messages, isTyping, currentAbortController>>
    /\ UNCHANGED <<inputMessage, nex, now, sent, clean, used, app, view>>

\* lines 181-207: fetch resolves with a response
FetchResolved(e, ok) ==
    /\ ex[e].pc = "fetch"
    /\ IF ok
       THEN /\ messages' = Append(messages, BotMessage(ex[e].botMessageId))
            /\ ex' = [ex EXCEPT ![e].pc = "read", ![e].request = None]
            /\ UNCHANGED <<isTyping, currentAbortController>>
       ELSE Throw(ex, e, messages, NotOkError, "not_ok")
    /\ UNCHANGED <<inputMessage, nex, now, sent, clean, used, app, view>>

\* line 181: fetch rejects on a network failure
FetchRejected(e) ==
    /\ ex[e].pc = "fetch"
    /\ Throw(ex, e, messages, NetworkError, "fetch_failed")
    /\ UNCHANGED <<inputMessage, nex, now, sent, clean, used, app, view>>

\* the lines that buffer.split and lines.pop leave to the for loop (lines
\* 213-215) when the bytes b arrive: the line begun in buffer, now ended, and
\* the whole lines of b
Complete(buffer, b) == (IF b.rest THEN buffer ELSE <<>>) \o b.lines

\* lines 209-300: reader.read resolves with a value; buffer is extended by the
\* decoded bytes, split at the newlines, and its last part, which no newline
\* ends, stays in buffer (lines 213-215); the other parts are processed
ReadBytes(e, b) ==
    /\ ex[e].pc = "read"
    /\ b.rest = (ex[e].buffer # None)
    /\ b.rest \/ b.lines # <<>> \/ b.tail # None
    /\ LET chunk == Complete(ex[e].buffer, b) IN
       /\ used + Len(chunk) <= MaxSize
       /\ used' = used + Len(chunk)
       /\ sent' = [sent EXCEPT ![e] = @ \o Deltas(chunk, 1)]
       /\ clean' = [clean EXCEPT ![e] = @ /\ EventsOnly(chunk)]
       /\ LET S == ProcessLines(Locals(ex[e].accumulatedText, ex[e].completedItems, messages, "next", NoErr),
                                ex[e].botMessageId, chunk, 1)
              x == [ex EXCEPT ![e].accumulatedText = S.acc, ![e].completedItems = S.items,
                              ![e].skipped = @ + Len(chunk) - Len(WithoutMalformed(chunk)),
                              ![e].ignored = @ \/ WithoutIgnored(chunk) # chunk,
                              ![e].sentinel = @ \/ S.exit = "break",
                              ![e].buffer = b.tail]
          IN CASE S.exit = "return" -> Return(x, e, S.msgs, "done")
               [] S.exit = "throw" ->
                      Throw(x, e, S.msgs, S.err,
                            IF S.err.name = "TypeError" THEN "type_error" ELSE "error_event")
               [] OTHER -> /\ messages' = S.msgs
                           /\ ex' = x
                           /\ UNCHANGED <<isTyping, currentAbortController>>
    /\ UNCHANGED <<inputMessage, nex, now, app, view>>

\* reader.read resolves with a value that ends where a line ends, and no
\* line is begun in buffer
ReadChunk(e, chunk) == ReadBytes(e, Bytes(FALSE, chunk, None))

\* ReadDone with the part left in buffer processed as a last line
ReadDoneFlushes(e) ==
    /\ ex[e].pc = "read"
    /\ LET S == ProcessLines(Locals(ex[e].accumulatedText, ex[e].completedItems, messages, "next", NoErr),
                             ex[e].botMessageId, ex[e].buffer, 1)
       IN Return([ex EXCEPT ![e].accumulatedText = S.acc, ![e].completedItems = S.items],
                 e, S.msgs, "closed")
    /\ UNCHANGED <<inputMessage, nex, now, sent, clean, used, app, view>>

\* lines 210-211: reader.read resolves with done, the body has ended
ReadDone(e) ==
    /\ ex[e].pc = "read"
    /\ Return(ex, e, messages, "closed")
    /\ UNCHANGED <<inputMessage, nex, now, sent, clean, used, app, view>>

\* line 210: reader.read rejects on a network failure
ReadRejected(e) ==
    /\ ex[e].pc = "read"
    /\ Throw(ex, e, messages, NetworkError, "read_failed")
    /\ UNCHANGED <<inputMessage, nex, now, sent, clean, used, app, view>>

\* lines 427-434: clearChat, the method the component exposes to its parent
\* through the imperative handle (lines 437-439); it counts 1 in the size of a
\* behaviour
ClearChat ==
    /\ used + 1 <= MaxSize
    /\ used' = used + 1
    /\ messages' = ClearedMessages
    /\ UNCHANGED <<inputMessage, isTyping, currentAbortController, ex, nex, now, sent, clean, app, view>>

----------------------------------------------------------------------------
\* Specification

\* ExcomApp.js lines 26-29: setSettings(settings) and the effect that stores
\* the new settings
SetSettings(settings) ==
    app' = [app EXCEPT !.settings = settings, !.localStorage = Some(settings)]

\* ExcomApp.js lines 143-147: Chat is rendered on the chat tab only.  When it
\* is unmounted its state is gone, and a Chat mounted later starts from the
\* state of lines 121-126; the invocations of handleStreamedResponse still in
\* flight go on, but their state updates reach no mounted component, so they
\* are followed no further (pc "detached").
Unmounted ==
    /\ messages' = InitialMessages
    /\ inputMessage' = ""
    /\ isTyping' = FALSE
    /\ currentAbortController' = 0
    /\ ex' = [e \in Exchanges |-> IF InFlight(e) THEN [NoExchange EXCEPT !.pc = "detached"] ELSE ex[e]]

\* ExcomApp.js lines 49-52, with the buttons of lines 83-94
HandleTabChange(tab) ==
    /\ app' = [app EXCEPT !.activeTab = tab]
    /\ IF app.activeTab = "chat" /\ tab # "chat"
       THEN Unmounted
       ELSE UNCHANGED <<messages, inputMessage, isTyping, currentAbortController, ex>>
    /\ UNCHANGED <<nex, now, sent, clean, used, view>>

\* src/unnamed/part_003 lines 50-52: the user edits the API URL
HandleApiUrlChange(v) ==
    /\ app.activeTab = "settings"
    /\ SetSettings([app.settings EXCEPT !.apiUrl = v])
    /\ UNCHANGED <<messages, inputMessage, isTyping, currentAbortController, ex, nex, now, sent, clean, used, view>>

\* src/unnamed/part_003 lines 54-56: the Enable Streaming Responses checkbox
HandleStreamingToggle ==
    /\ app.activeTab = "settings"
    /\ SetSettings([app.settings EXCEPT !.streaming = ~app.settings.streaming])
    /\ UNCHANGED <<messages, inputMessage, isTyping, currentAbortController, ex, nex, now, sent, clean, used, view>>

\* src/unnamed/part_003 lines 72-78: Reset to Defaults
ResetToDefaults ==
    /\ app.activeTab = "settings"
    /\ SetSettings(ResetDefaults)
    /\ UNCHANGED <<messages, inputMessage, isTyping, currentAbortController, ex, nex, now, sent, clean, used, view>>

\* lines 121-126: the state after the component is mounted
Init ==
    /\ messages = InitialMessages
    /\ inputMessage = ""
    /\ isTyping = FALSE
    /\ currentAbortController = 0
    /\ ex = [e \in Exchanges |-> NoExchange]
    /\ nex = 0
    /\ now = 2
    /\ sent = [e \in Exchanges |-> <<>>]
    /\ clean = [e \in Exchanges |-> TRUE]
    /\ used = 0
    /\ app = FirstRun
    /\ view = NoView

Next ==
    \/ \E v \in Inputs : SetInputMessage(v)
    \/ HandleSendMessage
    \/ StopGeneration
    \/ \E e \in Exchanges, auth \in AuthStates : TokenResolved(e, auth)
    \/ \E e \in Exchanges, ok \in BOOLEAN : FetchResolved(e, ok)
    \/ \E e \in Exchanges : FetchRejected(e)
    \/ \E e \in Exchanges, chunk \in Chunks : ReadChunk(e, chunk)
    \/ \E e \in Exchanges : ReadDone(e)
    \/ \E e \in Exchanges : ReadRejected(e)

Spec == Init /\ [][Next]_vars

\* The component with its imperative handle in use.  No component of the
\* repository holds a ref to Chat, so clearChat is not an action of Spec.
SessionNext ==
    \/ Next
    \/ ClearChat

SessionSpec == Init /\ [][SessionNext]_vars

\* The body of one response, read in chunks that end anywhere: the exchange
\* is the first of the session and its fetch has just resolved ok (lines
\* 199-207).
StreamInit ==
    /\ messages = InitialMessages \o <<UserMessage(4, "hi"), BotMessage(5)>>
    /\ inputMessage = ""
    /\ isTyping = TRUE
    /\ currentAbortController = 1
    /\ ex = [e \in Exchanges |->
                IF e = 1 THEN [NoExchange EXCEPT !.pc = "read", !.botMessageId = 5]
                ELSE NoExchange]
    /\ nex = 1
    /\ now = 4
    /\ sent = [e \in Exchanges |-> <<>>]
    /\ clean = [e \in Exchanges |-> TRUE]
    /\ used = 2
    /\ app = FirstRun
    /\ view = NoView

StreamNext ==
    \/ \E e \in Exchanges, b \in ByteChunks : ReadBytes(e, b)
    \/ \E e \in Exchanges : ReadDone(e)

StreamSpec == StreamInit /\ [][StreamNext]_vars

\* The body of one response whose records need not be events the loop knows
RecordNext ==
    \/ \E e \in Exchanges, chunk \in RecordChunks : ReadChunk(e, chunk)
    \/ \E e \in Exchanges : ReadDone(e)

RecordSpec == StreamInit /\ [][RecordNext]_vars

\* A send late in a session: the transcript holds the greeting and the turns
\* of p exchanges that have ended with a done event, ids as the clock of
\* HandleSendMessage gives them; the invocations counted in ex and nex are
\* the ones made from here on.
RECURSIVE Transcript(_)
Transcript(p) ==
    IF p = 0 THEN InitialMessages
    ELSE Transcript(p - 1)
         \o <<UserMessage(2 * p + 2, "hi"),
               Spread(BotMessage(2 * p + 3),
                      [text |-> Some("Hi"), streamingText |-> Some("Hi"), isStreaming |-> FALSE])>>

HistoryInit ==
    /\ \E p \in 0..MaxPairs :
          /\ messages = Transcript(p)
          /\ now = 2 * p + 2
    /\ inputMessage = ""
    /\ isTyping = FALSE
    /\ currentAbortController = 0
    /\ ex = [e \in Exchanges |-> NoExchange]
    /\ nex = 0
    /\ sent = [e \in Exchanges |-> <<>>]
    /\ clean = [e \in Exchanges |-> TRUE]
    /\ used = MaxSize - 4
    /\ app = FirstRun
    /\ view = NoView

HistoryNext ==
    \/ \E v \in Inputs : SetInputMessage(v)
    \/ HandleSendMessage
    \/ StopGeneration
    \/ \E e \in Exchanges, auth \in AuthStates : TokenResolved(e, auth)
    \/ \E e \in Exchanges, ok \in BOOLEAN : FetchResolved(e, ok)
    \/ \E e \in Exchanges : FetchRejected(e)

HistorySpec == HistoryInit /\ [][HistoryNext]_vars

\* The session with nothing assumed about the time between two sends but that
\* the readings of Date.now() do not go back: a reading is the last one (the
\* clock is coarse, or the two calls are in the same millisecond) or later by
\* 1 or 2.  The bodies of the responses are left out: a response ends when its
\* body closes.
ClockInit ==
    /\ messages = InitialMessages
    /\ inputMessage = ""
    /\ isTyping = FALSE
    /\ currentAbortController = 0
    /\ ex = [e \in Exchanges |-> NoExchange]
    /\ nex = 0
    /\ now = 2
    /\ sent = [e \in Exchanges |-> <<>>]
    /\ clean = [e \in Exchanges |-> TRUE]
    /\ used = MaxSize - 4
    /\ app = FirstRun
    /\ view = NoView

ClockNext ==
    \/ \E v \in Inputs : SetInputMessage(v)
    \/ \E elapsed \in Elapsed, tick \in Ticks : HandleSendMessageAt(elapsed, tick)
    \/ StopGeneration
    \/ \E e \in Exchanges, auth \in AuthStates : TokenResolved(e, auth)
    \/ \E e \in Exchanges, ok \in BOOLEAN : FetchResolved(e, ok)
    \/ \E e \in Exchanges : FetchRejected(e)
    \/ \E e \in Exchanges : ReadDone(e)

ClockSpec == ClockInit /\ [][ClockNext]_vars

\* The application with its two tabs: it starts with what localStorage holds,
\* or with nothing stored; Chat is followed up to the response of fetch.
AppInit ==
    /\ messages = InitialMessages
    /\ inputMessage = ""
    /\ isTyping = FALSE
    /\ currentAbortController = 0
    /\ ex = [e \in Exchanges |-> NoExchange]
    /\ nex = 0
    /\ now = 2
    /\ sent = [e \in Exchanges |-> <<>>]
    /\ clean = [e \in Exchanges |-> TRUE]
    /\ used = MaxSize - 4
    /\ app \in {Mount(stored) : stored \in {None} \cup {Some(settings) : settings \in StoredSettings}}
    /\ view = NoView

AppNext ==
    \/ \E tab \in {"chat", "settings"} : HandleTabChange(tab)
    \/ \E v \in ApiUrls : HandleApiUrlChange(v)
    \/ HandleStreamingToggle
    \/ ResetToDefaults
    \/ app.activeTab = "chat" /\ \E v \in Inputs : SetInputMessage(v)
    \/ app.activeTab = "chat" /\ HandleSendMessage
    \/ app.activeTab = "chat" /\ StopGeneration
    \/ app.activeTab = "chat" /\ \E e \in Exchanges, auth \in AuthStates : TokenResolved(e, auth)
    \/ app.activeTab = "chat" /\ \E e \in Exchanges, ok \in BOOLEAN : FetchResolved(e, ok)
    \/ app.activeTab = "chat" /\ \E e \in Exchanges : FetchRejected(e)

AppSpec == AppInit /\ [][AppNext]_vars

\* The rendering of one turn: the session is as after mounting, the turn has
\* just been created (lines 200-207) and is rendered with the settings found
\* in localStorage.
RenderInit ==
    /\ messages = InitialMessages
    /\ inputMessage = ""
    /\ isTyping = FALSE
    /\ currentAbortController = 0
    /\ ex = [e \in Exchanges |-> NoExchange]
    /\ nex = 0
    /\ now = 2
    /\ sent = [e \in Exchanges |-> <<>>]
    /\ clean = [e \in Exchanges |-> TRUE]
    /\ used = 0
    /\ app = FirstRun
    /\ \E settings \in RenderSettings : view \in Views(settings, NewTurn)

RenderNext ==
    \/ \E c \in Pieces : TurnContent(c)
    \/ TurnDone
    \/ TurnStopped
    \/ TurnFailed
    \/ TimerFires

RenderSpec == RenderInit /\ [][RenderNext]_vars

\* The rendering of one turn whose text has several code blocks: as
\* RenderSpec, with the deltas of the content events being pieces of text and
\* whole fence markers.
BlockNext ==
    \/ \E delta \in BlockDeltas : TurnBlockContent(delta)
    \/ TurnDone
    \/ TurnStopped
    \/ TurnFailed
    \/ TimerFires

BlockSpec == RenderInit /\ [][BlockNext]_vars

----------------------------------------------------------------------------
\* Properties

\* the turns of msgs whose id is id
Turns(msgs, id) == SelectSeq(msgs, LAMBDA m : m.id = id)

\* the assistant turn of exchange e, when there is one
HasTurn(e) == Len(Turns(messages, ex[e].botMessageId)) = 1
Turn(e) == Turns(messages, ex[e].botMessageId)[1]

\* c1 + ... + cn
RECURSIVE Concat(_)
Concat(cs) == IF cs = <<>> THEN "" ELSE Head(cs) \o Concat(Tail(cs))

\* the tool calls of items that are still unresolved
Unresolved(items) ==
    {i \in DOMAIN items : items[i].type = "tool_call" /\ items[i].isProcessing}

Max(S) == CHOOSE i \in S : \A j \in S : j <= i

\* C1: an exchange whose stream delivered only events, the last of them a done
\* event that ended it, has one turn, whose text and streamingText are the
\* deltas of its content events concatenated in arrival order, with
\* isStreaming false and no error flag.
C1_DoneGivesConcatenation ==
    \A e \in Exchanges :
        (ex[e].outcome = "done" /\ clean[e]) =>
            /\ HasTurn(e)
            /\ Turn(e).text = Some(Concat(sent[e]))
            /\ Turn(e).streamingText = Some(Concat(sent[e]))
            /\ ~Turn(e).isStreaming
            /\ ~Turn(e).isError

\* C1 witness: an exchange ended by done after two different deltas and a sub-item
C1_Witness ==
    \E e \in Exchanges :
        /\ ex[e].outcome = "done" /\ clean[e]
        /\ Len(sent[e]) = 2 /\ sent[e][1] # sent[e][2]
        /\ Len(ex[e].completedItems) = 1
        /\ HasTurn(e) /\ Turn(e).text = Some(sent[e][1] \o sent[e][2])

\* C2: at most one exchange is in flight in every reachable state.
C2_AtMostOneExchange ==
    Cardinality({e \in Exchanges : InFlight(e)}) <= 1

\* C3: in the state after an exchange has returned, by whatever path,
\* currentAbortController is null and isTyping is false, and handleSendMessage
\* accepts every input that is not blank.
C3_ReleasedOnEveryExit ==
    [][\A e \in Exchanges :
          (InFlight(e) /\ ex'[e].pc = "returned") =>
              /\ currentAbortController' = 0
              /\ isTyping' = FALSE
              /\ \A v \in Inputs : Trim(v) # "" => SendAccepted(v)']_vars

\* C3 witness: exchanges have ended by a done event and by the body closing
\* without one, and the session is released
C3_Witness ==
    /\ \E e \in Exchanges : ex[e].outcome = "closed"
    /\ \E e \in Exchanges : ex[e].outcome = "done"
    /\ currentAbortController = 0 /\ ~isTyping

\* C4: currentAbortController is non-null exactly when an exchange is in
\* flight, and is then the controller of the exchange in flight.
C4_ControllerIffInFlight ==
    /\ (currentAbortController # 0) <=> (\E e \in Exchanges : InFlight(e))
    /\ \A e \in Exchanges : InFlight(e) => currentAbortController = e

\* C5: a turn whose exchange was cancelled by stopGeneration ends with text T
\* followed by the stop annotation, T being the content applied before,
\* isStreaming false, no error flag and not the failure message; and a turn
\* whose exchange failed never carries the stop annotation.
C5_StopAnnotates ==
    \A e \in Exchanges :
        HasTurn(e) =>
            /\ ex[e].outcome = "cancelled" =>
                  /\ Turn(e).text = Some(ex[e].accumulatedText \o StopAnnotation)
                  /\ Turn(e).streamingText = Some(ex[e].accumulatedText \o StopAnnotation)
                  /\ ~Turn(e).isStreaming
                  /\ ~Turn(e).isError
            /\ ex[e].outcome \in {"error_event", "read_failed"} =>
                  Turn(e).text # Some(ex[e].accumulatedText \o StopAnnotation)

\* C6: the step in which stopGeneration aborts an exchange leaves
\* currentAbortController null, and no step taken after an exchange was aborted
\* changes that exchange's turn.
C6_NoChangeAfterStop ==
    [][\A e \in Exchanges :
          /\ (~ex[e].aborted /\ ex'[e].aborted) => currentAbortController' = 0
          /\ ex[e].aborted =>
                Turns(messages', ex[e].botMessageId) = Turns(messages, ex[e].botMessageId)]_vars

\* C6 witness: an exchange was stopped while its turn was streaming with
\* content applied, and a later exchange has since received lines
C6_Witness ==
    \E e \in Exchanges :
        /\ ex[e].aborted /\ HasTurn(e) /\ ex[e].accumulatedText # ""
        /\ \E f \in Exchanges : f > e /\ HasTurn(f) /\ ex[f].accumulatedText # ""

\* C7: stopGeneration called with currentAbortController null changes neither
\* messages, isTyping, currentAbortController nor any exchange; and every call
\* leaves currentAbortController null, so that a second call in a row is a call
\* with no active stream.
C7_StopIdempotent ==
    [][StopGeneration =>
          /\ currentAbortController' = 0
          /\ currentAbortController = 0 =>
                UNCHANGED <<messages, isTyping, currentAbortController, ex>>]_vars

\* C7 witness: stopGeneration has stopped a streaming turn that had content,
\* the turn carries the stop annotation once, and no stream is active
C7_Witness ==
    /\ currentAbortController = 0
    /\ \E e \in Exchanges :
          /\ ex[e].outcome = "cancelled" /\ ex[e].accumulatedText # ""
          /\ HasTurn(e) /\ Turn(e).text = Some(ex[e].accumulatedText \o StopAnnotation)

\* C8: in every turn at most one tool_call item has isProcessing true.
C8_AtMostOneUnresolved ==
    \A i \in DOMAIN messages :
        messages[i].completedItems # None =>
            Cardinality(Unresolved(messages[i].completedItems[1])) <= 1

\* C9: a chunk that is one tool_result event, with is_error true or false,
\* resolves in the turn the unresolved tool_call of highest index and leaves
\* every other item and field of the turn as it was; with no unresolved
\* tool_call the turn is unchanged; the turn gets no error flag and the
\* exchange goes on reading.
C9_ResultResolvesLast ==
    [][\A e \in Exchanges, b \in BOOLEAN :
          (HasTurn(e) /\ ReadChunk(e, <<Line("object", "tool_result", "", "", b)>>)) =>
              LET items == Turn(e).completedItems[1]
                  U == Unresolved(items)
                  after == Turns(messages', ex[e].botMessageId)[1]
              IN /\ after = [Turn(e) EXCEPT !.completedItems =
                                Some(IF U = {} THEN items
                                     ELSE [items EXCEPT ![Max(U)].isProcessing = FALSE])]
                 /\ ~after.isError
                 /\ ex'[e].pc = "read"]_vars

\* C9 witness: of two tool calls the later one is resolved and the earlier one
\* is still processing
C9_Witness ==
    \E e \in Exchanges :
        /\ HasTurn(e) /\ Turn(e).completedItems # None
        /\ LET items == Turn(e).completedItems[1]
           IN /\ Len(items) = 2
              /\ items[1].type = "tool_call" /\ items[1].isProcessing
              /\ items[2].type = "tool_call" /\ ~items[2].isProcessing

\* the length of a string that may be undefined, and of a list that may be
OptLen(o) == IF o = None THEN 0 ELSE Len(o[1])

\* C10: a step that applies the events of a chunk (content, thinking,
\* reasoning, tool_call, tool_result, status, error, done) shortens neither the
\* streamingText nor the completedItems of any turn.
C10_AppendOnly ==
    [][(nex' = nex /\ used' > used /\ \A e \in Exchanges : clean'[e]) =>
          \A i \in DOMAIN messages :
              /\ OptLen(messages'[i].streamingText) >= OptLen(messages[i].streamingText)
              /\ OptLen(messages'[i].completedItems) >= OptLen(messages[i].completedItems)]_vars

\* the chunks that hold a record that is not parseable JSON
MalformedChunks == {chunk \in Chunks : WithoutMalformed(chunk) # chunk}

\* C11: a step that delivers a chunk holding a data record that is not
\* parseable JSON leaves the transcript, the locals and the position of the
\* exchange as the same chunk without that record would: the record changes
\* nothing and sets no error flag, the lines before and after it are applied in
\* order, and the exchange goes on reading unless one of those lines ends it.
C11_MalformedSkipped ==
    [][\A e \in Exchanges :
          (ex[e].pc = "read" /\ ex'[e].skipped > ex[e].skipped) =>
          \A chunk \in MalformedChunks :
          (used' = used + Len(chunk) /\ ReadChunk(e, chunk)) =>
              LET id == ex[e].botMessageId
                  S == ProcessLines(Locals(ex[e].accumulatedText, ex[e].completedItems,
                                           messages, "next", NoErr),
                                    id, WithoutMalformed(chunk), 1)
              IN /\ ex'[e].accumulatedText = S.acc
                 /\ ex'[e].completedItems = S.items
                 /\ messages' = IF S.exit = "throw"
                                 THEN CatchBlock(S.msgs, id, S.acc, S.err)
                                 ELSE S.msgs
                 /\ ex'[e].pc = IF S.exit \in {"return", "throw"} THEN "returned" ELSE "read"
                 /\ WithoutMalformed(chunk) = <<>> =>
                        UNCHANGED <<messages, isTyping, currentAbortController>>]_vars

\* C11 witness: one unparseable record arrived between two content events, both
\* deltas are in the turn in order, the turn has no error flag and the
\* exchange is still reading
C11_Witness ==
    \E e \in Exchanges :
        /\ ex[e].pc = "read" /\ ex[e].skipped = 1 /\ used = 5
        /\ Len(sent[e]) = 2 /\ sent[e][1] # sent[e][2]
        /\ HasTurn(e) /\ Turn(e).streamingText = Some(sent[e][1] \o sent[e][2])
        /\ ~Turn(e).isError /\ Turn(e).isStreaming

\* C12: after reader.read has rejected with a network error, the turn of the
\* exchange is errored (isError true, isStreaming false) and the text T that its
\* content events had accumulated is still held by the turn, in text or in
\* streamingText.
C12_ReadFailureKeepsText ==
    \A e \in Exchanges :
        ex[e].outcome = "read_failed" =>
            /\ HasTurn(e)
            /\ Turn(e).isError /\ ~Turn(e).isStreaming
            /\ \/ ex[e].accumulatedText = ""
               \/ Turn(e).text = Some(ex[e].accumulatedText)
               \/ Turn(e).streamingText = Some(ex[e].accumulatedText)

\* C17: whatever getAccessToken meets (no account, a token from the silent or
\* from the popup acquisition, both acquisitions rejected), it returns and does
\* not throw, an exchange that was not stopped meanwhile goes on to call fetch,
\* and the request has the header Authorization: Bearer <token> exactly when
\* getAccessToken returned a token that is not empty.
C17_RequestWhateverToken ==
    [][\A e \in Exchanges, auth \in AuthStates :
          (ex[e].pc = "token" /\ ~ex[e].aborted /\ TokenResolved(e, auth)) =>
              LET token == GetAccessToken(auth)
                  present == token.value # None /\ token.value[1] # ""
              IN /\ token.kind = "return"
                 /\ ex'[e].pc = "fetch"
                 /\ ex'[e].request # None
                 /\ (ex'[e].request[1].headers.Authorization # None) <=> present
                 /\ present => ex'[e].request[1].headers.Authorization = Some("Bearer " \o token.value[1])
                 /\ UNCHANGED <<messages, isTyping, currentAbortController>>]_vars

\* C17 witness: two exchanges await their response at once, the request of one
\* carries a bearer token and the request of the other has no Authorization
\* header
C17_Witness ==
    \E e, f \in Exchanges :
        /\ ex[e].pc = "fetch" /\ ex[e].request # None
        /\ ex[e].request[1].headers.Authorization = Some("Bearer eyJ0eXAi")
        /\ ex[f].pc = "fetch" /\ ex[f].request # None
        /\ ex[f].request[1].headers.Authorization = None

\* C13: after fetch has rejected with a network error, or has resolved with a
\* response that is not ok, the transcript holds the assistant turn of that
\* exchange, errored and showing the failure message, and the exchange has
\* returned with no request of its own under way.
C13_OpenFailureShowsErroredTurn ==
    \A e \in Exchanges :
        ex[e].outcome \in {"fetch_failed", "not_ok"} =>
            /\ ex[e].pc = "returned" /\ ex[e].request = None
            /\ HasTurn(e)
            /\ Turn(e).isError /\ ~Turn(e).isStreaming
            /\ Turn(e).text = Some(ErrorMessage)

\* the index of the error event of a chunk that the line loop reaches: no done
\* event, sentinel or other error event comes before it in the chunk (0 if none)
ErrorAt(chunk) ==
    LET Ends(l) == l.json = "sentinel" \/ (l.json = "object" /\ l.type \in {"done", "error"})
        I == {i \in DOMAIN chunk :
                 /\ chunk[i].json = "object" /\ chunk[i].type = "error"
                 /\ \A j \in 1..(i - 1) : ~Ends(chunk[j])}
    IN IF I = {} THEN 0 ELSE CHOOSE i \in I : TRUE

\* the chunks in which an error event is reached
ErrorChunks == {chunk \in Chunks : ErrorAt(chunk) > 0}

\* C14: the step in which an error event arrives leaves the turn with isError
\* true, isStreaming false and text and streamingText the failure message,
\* whatever the content of the event, its sub-items being those applied before
\* the event; the lines after the event in the chunk change nothing; isTyping
\* is false and the controller null, so that the next send is accepted; and
\* no later step changes the turn or the exchange.
C14_ErrorEventEndsTurn ==
    [][\A e \in Exchanges :
          /\ (ex[e].pc = "read" /\ ex'[e].outcome = "error_event") =>
             \A chunk \in ErrorChunks :
                (used' = used + Len(chunk) /\ ReadChunk(e, chunk)) =>
                    LET id == ex[e].botMessageId
                        S == ProcessLines(Locals(ex[e].accumulatedText, ex[e].completedItems,
                                                 messages, "next", NoErr),
                                          id, SubSeq(chunk, 1, ErrorAt(chunk) - 1), 1)
                    IN /\ messages' = MapMessages(S.msgs, id,
                                          [text |-> Some(ErrorMessage),
                                           streamingText |-> Some(ErrorMessage),
                                           isError |-> TRUE, isStreaming |-> FALSE])
                       /\ Len(Turns(messages', id)) = 1
                       /\ ex'[e].pc = "returned"
                       /\ isTyping' = FALSE /\ currentAbortController' = 0
                       /\ \A v \in Inputs : Trim(v) # "" => SendAccepted(v)'
          /\ ex[e].outcome = "error_event" =>
                /\ Turns(messages', ex[e].botMessageId) = Turns(messages, ex[e].botMessageId)
                /\ ex'[e] = ex[e]]_vars

\* C14 witness: an error event ended a turn that had content; the turn shows
\* the failure message, and a send made afterwards was accepted
C14_Witness ==
    \E e, f \in Exchanges :
        /\ ex[e].outcome = "error_event" /\ ex[e].accumulatedText # ""
        /\ HasTurn(e) /\ Turn(e).isError /\ ~Turn(e).isStreaming
        /\ Turn(e).text = Some(ErrorMessage)
        /\ f > e /\ ex[f].pc = "token"

\* C15: once handleStreamedResponse has returned without having been stopped,
\* by whatever path (a done event, the body closing with or without a [DONE]
\* sentinel, an error), the assistant turn of the exchange is no longer
\* streaming.
C15_ReturnedTurnIsTerminal ==
    \A e \in Exchanges :
        (ex[e].pc = "returned" /\ ~ex[e].aborted /\ HasTurn(e)) => ~Turn(e).isStreaming

\* C16: once the line loop of an exchange has read the sentinel line
\* data: [DONE], the exchange reads no further chunk, and no chunk delivered
\* afterwards changes its turn.
C16_SentinelTerminates ==
    [][\A e \in Exchanges :
          (ex[e].sentinel /\ nex' = nex /\ used' > used) =>
              /\ ex'[e] = ex[e]
              /\ Turns(messages', ex[e].botMessageId) = Turns(messages, ex[e].botMessageId)]_vars

\* C20: an exchange that stopGeneration cancelled has, when it has returned,
\* a turn in the transcript, also when it was cancelled while it awaited
\* getAccessToken or fetch; and when no content had been applied the text of
\* that turn is the stop annotation.
C20_EarlyStopLeavesStoppedTurn ==
    \A e \in Exchanges :
        ex[e].outcome = "cancelled" =>
            /\ HasTurn(e)
            /\ ex[e].accumulatedText = "" => Turn(e).text = Some(StopAnnotation)

\* C18: for the text of a turn rendered by EnhancedMarkdown, with an even
\* number of fence markers hasIncompleteCodeBlock is false; with an odd number
\* while the turn is streaming the text is rendered by EnhancedMarkdown and
\* hasIncompleteCodeBlock is true; when the turn is not streaming
\* hasIncompleteCodeBlock is false; and a code block shown by StreamingCodeBlock
\* gets hasIncompleteCodeBlock as its isStreaming.
C18_FenceBalance ==
    LET m == view.message
        r == view.rendered
        n == Markers(r.content)
    IN /\ r.component = "EnhancedMarkdown" =>
             /\ n % 2 = 0 => ~r.hasIncompleteCodeBlock
             /\ ~m.isStreaming => ~r.hasIncompleteCodeBlock
             /\ r.code.element = "StreamingCodeBlock" =>
                    r.code.isStreaming = r.hasIncompleteCodeBlock
       /\ (Streaming(m) /\ Markers(m.streamingText[1]) % 2 = 1) =>
             /\ r.component = "EnhancedMarkdown"
             /\ r.content = m.streamingText[1]
             /\ r.hasIncompleteCodeBlock

\* C18 witness: a streaming turn whose text is a piece of text and a run of
\* four backticks, one marker, is rendered with its code block provisional
C18_Witness ==
    /\ Streaming(view.message)
    /\ view.message.streamingText[1] = <<"x", Backtick, Backtick, Backtick, Backtick>>
    /\ view.rendered.hasIncompleteCodeBlock
    /\ view.rendered.code.element = "StreamingCodeBlock"
    /\ view.rendered.code.isStreaming

\* the code node followed is an embeddable-HTML candidate (part_005 lines 30-33)
Candidate(block) ==
    block # None /\ ~block[1].inline /\ (IsHtmlByLanguage(block[1]) \/ IsHtmlByContent(block[1]))

\* C19: with the settings of a first run, a candidate block of a turn rendered
\* by EnhancedMarkdown is never HtmlPreview while the turn is streaming or the
\* block provisional, it is then a StreamingCodeBlock; and once the turn is not
\* streaming and its text is one block between an opening and a closing fence
\* marker, it is HtmlPreview.
C19_HtmlEmbeddedOnceSettled ==
    LET m == view.message
        r == view.rendered
    IN (view.settings = DefaultSettings /\ r.component = "EnhancedMarkdown" /\ Candidate(r.block)) =>
          /\ (m.isStreaming \/ r.hasIncompleteCodeBlock) => r.code.element = "StreamingCodeBlock"
          /\ (~m.isStreaming /\ Markers(r.content) = 2
                /\ r.content[1] = Backtick /\ r.content[Len(r.content)] = Backtick) =>
                r.code.element = "HtmlPreview"

\* C21: the assistant turn of an exchange is in the transcript from the moment
\* handleSendMessage accepted the send, and it is not streaming while the
\* exchange awaits getAccessToken or the response of fetch.
C21_TurnPendingFromSend ==
    \A e \in Exchanges :
        InFlight(e) =>
            /\ HasTurn(e)
            /\ ex[e].pc \in {"token", "fetch"} => ~Turn(e).isStreaming

IgnoredChunks == {chunk \in Chunks : WithoutIgnored(chunk) # chunk}

\* C30: a step that delivers a chunk holding a status or a tool_complete event
\* leaves the transcript, the locals and the position of the exchange as the
\* same chunk without that event would: the event changes neither the text,
\* the sub-items nor the flags of the turn, and the lines before and after it
\* are applied in order as if it were absent.
C30_StatusIgnored ==
    [][\A e \in Exchanges :
          (ex[e].pc = "read" /\ ex'[e].ignored) =>
          \A chunk \in IgnoredChunks :
          (used' = used + Len(chunk) /\ ReadChunk(e, chunk)) =>
              LET id == ex[e].botMessageId
                  S == ProcessLines(Locals(ex[e].accumulatedText, ex[e].completedItems,
                                           messages, "next", NoErr),
                                    id, WithoutIgnored(chunk), 1)
              IN /\ ex'[e].accumulatedText = S.acc
                 /\ ex'[e].completedItems = S.items
                 /\ messages' = IF S.exit = "throw"
                                 THEN CatchBlock(S.msgs, id, S.acc, S.err)
                                 ELSE S.msgs
                 /\ ex'[e].pc = IF S.exit \in {"return", "throw"} THEN "returned" ELSE "read"
                 /\ ex'[e].sentinel = (ex[e].sentinel \/ S.exit = "break")
                 /\ WithoutIgnored(chunk) = <<>> =>
                        UNCHANGED <<messages, isTyping, currentAbortController>>]_vars

\* C30 witness: a status or tool_complete event arrived between a content event
\* and a thinking event; the turn holds the delta and the thinking step, is
\* streaming and has no error flag
C30_Witness ==
    \E e \in Exchanges :
        /\ ex[e].pc = "read" /\ ex[e].ignored /\ used = 5
        /\ Len(sent[e]) = 1 /\ HasTurn(e)
        /\ Turn(e).streamingText = Some(sent[e][1])
        /\ Turn(e).completedItems = Some(<<ThinkingItem("plan")>>)
        /\ Turn(e).isStreaming /\ ~Turn(e).isError /\ Turn(e).text = None

\* C29: no step removes or replaces a turn of the transcript: every message
\* stays at its position, under its id, and messages are added at the end
\* only; this holds of clearChat too, and while an exchange is in flight.
C29_TurnsAppendOnly ==
    [][/\ Len(messages') >= Len(messages)
       /\ \A i \in 1..Len(messages) :
             /\ messages'[i].id = messages[i].id
             /\ messages'[i].sender = messages[i].sender]_vars

\* the state of an exchange that the lines of its response act on: the locals
\* accumulatedText and completedItems, the transcript, and whether the read
\* loop is still running
Acted(acc, items, msgs, live) == [acc |-> acc, items |-> items, msgs |-> msgs, live |-> live]

\* the state after one chunk that holds the whole lines lines and no more
AfterChunk(T, id, lines) ==
    IF ~T.live THEN T
    ELSE LET S == ProcessLines(Locals(T.acc, T.items, T.msgs, "next", NoErr), id, lines, 1)
         IN Acted(S.acc, S.items,
                  IF S.exit = "throw" THEN CatchBlock(S.msgs, id, S.acc, S.err) ELSE S.msgs,
                  S.exit \notin {"return", "throw"})

\* the state after the lines lines, from line i on, each in a chunk of its own
RECURSIVE AfterLines(_, _, _, _)
AfterLines(T, id, lines, i) ==
    IF i > Len(lines) THEN T
    ELSE AfterLines(AfterChunk(T, id, <<lines[i]>>), id, lines, i + 1)

\* C23: the way the response is cut into chunks makes no difference: a step
\* that reads a chunk leaves the locals, the transcript and the read loop of
\* the exchange as they are after the same lines arriving one per chunk, in
\* the order of the stream.
C23_ChunkBoundaryIndependent ==
    [][\A e \in Exchanges, lines \in {b.lines : b \in ByteChunks} :
          (/\ ex[e].pc = "read"
           /\ ReadBytes(e, Bytes(ex[e].buffer # None, lines, ex'[e].buffer))) =>
              LET T == AfterLines(Acted(ex[e].accumulatedText, ex[e].completedItems, messages, TRUE),
                                  ex[e].botMessageId,
                                  (IF ex[e].buffer # None THEN ex[e].buffer ELSE <<>>) \o lines, 1)
              IN /\ ex'[e].accumulatedText = T.acc
                 /\ ex'[e].completedItems = T.items
                 /\ messages' = T.msgs
                 /\ (ex'[e].pc = "read") = T.live]_vars

\* C24: the part of the bytes received that no newline has ended yet is held
\* in buffer and is neither parsed nor applied: a step that reads a chunk
\* leaves the locals and the transcript as the lines that are whole with that
\* chunk leave them, whatever further line the chunk begins, and the line
\* begun stays in buffer; and when the body ends, a line begun in buffer
\* changes neither the locals nor the transcript.
C24_PartialLineNeverApplied ==
    [][\A e \in Exchanges :
          /\ \A lines \in {b.lines : b \in ByteChunks} :
                (/\ ex[e].pc = "read"
                 /\ ReadBytes(e, Bytes(ex[e].buffer # None, lines, ex'[e].buffer))) =>
                    LET whole == (IF ex[e].buffer # None THEN ex[e].buffer ELSE <<>>) \o lines
                        T == AfterChunk(Acted(ex[e].accumulatedText, ex[e].completedItems,
                                              messages, TRUE),
                                        ex[e].botMessageId, whole)
                    IN /\ ex'[e].accumulatedText = T.acc
                       /\ ex'[e].completedItems = T.items
                       /\ messages' = T.msgs
                       /\ (ex'[e].pc = "read") = T.live
                       /\ used' = used + Len(whole)
          /\ (ex[e].pc = "read" /\ ex'[e].outcome = "closed") =>
                /\ messages' = messages
                /\ ex'[e].accumulatedText = ex[e].accumulatedText
                /\ ex'[e].completedItems = ex[e].completedItems
                /\ ex'[e].buffer = ex[e].buffer]_vars

\* C24 witness: the body ended while buffer held the beginning of a content
\* event; the turn holds the delta of the one content event that had arrived
\* whole, and nothing of the one begun
C24_Witness ==
    \E e \in Exchanges :
        /\ ex[e].outcome = "closed"
        /\ ex[e].buffer = Some(Event("content", "Hi"))
        /\ sent[e] = <<"Hi">> /\ ex[e].accumulatedText = "Hi"
        /\ HasTurn(e) /\ Turn(e).streamingText = Some("Hi")

\* the text blocks among the blocks of a rendered turn
TextBlocks(blocks) == SelectSeq(blocks, LAMBDA b : b.block = "StreamingText")

\* the blocks of a rendered turn are at most one text block and then the
\* annotations of the sub-items items, one for each, in their order
TextThenAnnotations(blocks, items) ==
    LET n == Len(TextBlocks(blocks)) IN
    /\ n <= 1
    /\ n = 1 => blocks[1].block = "StreamingText"
    /\ Len(blocks) = n + Len(items)
    /\ \A i \in 1..Len(items) :
          /\ blocks[n + i].block =
                (IF items[i].type = "thinking" THEN "inline-thinking" ELSE "tool-inline-text")
          /\ blocks[n + i].content = items[i].content
          /\ items[i].type = "tool_call" => blocks[n + i].name = items[i].name

\* C27, as stated: every turn of the assistant is rendered as exactly one text
\* block, followed by the annotations of its sub-items in their order.
C27_OneTextBlockThenAnnotations ==
    \A i \in DOMAIN messages :
        messages[i].sender = "bot" =>
            LET m == messages[i]
                blocks == StreamingMessage(m)
            IN /\ Len(TextBlocks(blocks)) = 1
               /\ TextThenAnnotations(blocks, IF m.completedItems = None THEN <<>> ELSE m.completedItems[1])

\* C27, amended: every turn of the assistant is rendered as at most one text
\* block, then the annotations of all its sub-items in their order. The text
\* block is there when the final text or the streaming text is not empty, it
\* shows the final text when that is not empty and else the streaming text,
\* never both, and no annotation stands before it.
C27_AtMostOneTextBlockThenAnnotations ==
    \A i \in DOMAIN messages :
        messages[i].sender = "bot" =>
            LET m == messages[i]
                blocks == StreamingMessage(m)
            IN /\ TextThenAnnotations(blocks, IF m.completedItems = None THEN <<>> ELSE m.completedItems[1])
               /\ Len(TextBlocks(blocks)) = 1 <=> (TruthyText(m.text) \/ TruthyText(m.streamingText))
               /\ TruthyText(m.text) => blocks[1].content = m.text[1] /\ ~blocks[1].isStreaming
               /\ (~TruthyText(m.text) /\ TruthyText(m.streamingText)) =>
                     blocks[1].content = m.streamingText[1] /\ blocks[1].isStreaming = m.isStreaming

\* C27 witness: a turn ended by a done event, with a text and with a thinking
\* step and a tool call, is rendered as the text block and the two annotations
C27_Witness ==
    \E e \in Exchanges :
        /\ ex[e].outcome = "done" /\ HasTurn(e)
        /\ Turn(e).text = Some("Hi") /\ Turn(e).streamingText = Some("Hi")
        /\ Turn(e).completedItems = Some(<<ThinkingItem("plan"), ToolInfo("search", "q")>>)
        /\ Len(StreamingMessage(Turn(e))) = 3
        /\ StreamingMessage(Turn(e))[1] = TextBlock("Hi", FALSE)

\* C25: while the turn is streaming and its text has an odd number of fence
\* markers, a fenced block that has both its fences, so that it lies before
\* the last marker, is shown by a StreamingCodeBlock that is not streaming and
\* shows it formatted; the block that the last marker opens is shown by one
\* that is streaming.
C25_ClosedBlocksSettled ==
    LET m == view.message
        r == view.rendered
    IN (/\ Streaming(m) /\ r.component = "EnhancedMarkdown"
        /\ Markers(r.content) % 2 = 1
        /\ r.code.element = "StreamingCodeBlock") =>
          /\ view.position = "closed" => ~r.code.isStreaming /\ view.cb.showFormatted
          /\ view.position = "open" => r.code.isStreaming /\ ~view.cb.showFormatted

\* C26: in the step in which a turn with a provisional code block (shown raw
\* by a StreamingCodeBlock that is streaming) stops streaming, the block is not
\* shown formatted: showFormatted stays false and the timer of 300 ms is
\* pending; and the step in which the timer fires sets showFormatted.
C26_SettleDelay ==
    [][/\ (/\ Streaming(view.message)
           /\ view.cb.mounted /\ view.rendered.code.isStreaming /\ ~view.cb.showFormatted
           /\ ~view'.message.isStreaming
           /\ view'.rendered.block = view.rendered.block /\ view'.position = view.position
           /\ view'.rendered.code.element = "StreamingCodeBlock") =>
              ~view'.cb.showFormatted /\ view'.cb.timer
       /\ (view.cb.timer /\ view'.message = view.message /\ ~view'.cb.timer) =>
              view'.cb.showFormatted]_vars

----------------------------------------------------------------------------
\* Sub-items over a step

\* the earlier items of a turn are all still there, at their places, with
\* the type, content, name and input they had, and none that was resolved is
\* unresolved
ItemsKept(old, new) ==
    /\ Len(new) >= Len(old)
    /\ \A j \in DOMAIN old :
          /\ new[j].type = old[j].type
          /\ new[j].content = old[j].content
          /\ new[j].name = old[j].name
          /\ new[j].input = old[j].input
          /\ ~old[j].isProcessing => ~new[j].isProcessing

\* C31: over every step, the sub-items of every turn are kept: none is
\* deleted or moved, a thinking item keeps its content, a tool_call item its
\* name and input, and a tool_call that was resolved (isProcessing false) is
\* never unresolved again; the only changes are items appended at the end and
\* an unresolved tool_call becoming resolved.
C31_ItemsAppendOnly ==
    [][\A i \in DOMAIN messages :
          (i \in DOMAIN messages' /\ messages'[i].id = messages[i].id
              /\ messages[i].completedItems # None) =>
                 /\ messages'[i].completedItems # None
                 /\ ItemsKept(messages[i].completedItems[1], messages'[i].completedItems[1])]_vars

\* a turn whose tool_call, appended after a thinking item, has been resolved
C31_Witness ==
    \E e \in Exchanges :
        /\ HasTurn(e)
        /\ Turn(e).completedItems =
              Some(<<ThinkingItem("plan"), [ToolInfo("search", "q") EXCEPT !.isProcessing = FALSE]>>)

----------------------------------------------------------------------------
\* The conversation history of a request

\* the last min(n, Len(msgs)) elements of msgs, in their order
LastTurns(msgs, n) ==
    LET k == IF Len(msgs) < n THEN Len(msgs) ELSE n
    IN [i \in 1..k |-> msgs[Len(msgs) - k + i]]

\* the step in which exchange e calls fetch
Requests(e) == ex[e].request = None /\ ex'[e].request # None

\* C32 as stated: when an exchange calls fetch, conversation_history has at
\* most 10 turns and is the last min(10, n) turns of the transcript, which
\* has n turns at that moment, in their order.
C32_HistoryIsLastTenOfTranscript ==
    [][\A e \in Exchanges :
          Requests(e) =>
              LET history == ex'[e].request[1].body.conversation_history
              IN /\ Len(history) <= 10
                 /\ history = LastTurns(messages, 10)]_vars

\* C32 amended: the send hands the exchange the text it sends and the
\* transcript as it is before the user's turn is appended to it, and when the
\* exchange calls fetch, message is that text and conversation_history has
\* at most 10 turns and is the last min(10, n) turns, in their order, of that
\* transcript of n turns: the turn of the message being sent is not in it.
C32_HistoryIsLastTenBeforeSend ==
    [][\A e \in Exchanges :
          /\ (ex[e].pc = "none" /\ ex'[e].pc = "token") =>
                 /\ ex'[e].messages = messages
                 /\ ex'[e].currentMessage = inputMessage
                 /\ messages' = Append(messages, UserMessage(ex'[e].botMessageId - 1, inputMessage))
          /\ (ex[e].pc = "token" /\ ex'[e].pc = "token") =>
                 /\ ex'[e].messages = ex[e].messages
                 /\ ex'[e].currentMessage = ex[e].currentMessage
          /\ Requests(e) =>
                 LET body == ex'[e].request[1].body
                 IN /\ body.message = ex[e].currentMessage
                    /\ Len(body.conversation_history) <= 10
                    /\ body.conversation_history = LastTurns(ex[e].messages, 10)]_vars

\* a request goes out with a history of 10 turns while the transcript it was
\* sent from had more than 10
C32_Witness ==
    \E e \in Exchanges :
        /\ ex[e].pc = "fetch" /\ ex[e].request # None
        /\ Len(ex[e].request[1].body.conversation_history) = 10
        /\ Len(messages) > 11
        /\ ex[e].request[1].body.conversation_history[10] = messages[Len(messages) - 1]

----------------------------------------------------------------------------
\* Settings

\* the step in which a send is accepted and exchange e begins
Begins(e) == ex[e].pc = "none" /\ ex'[e].pc # "none"

\* C33: a send made while settings.streaming is false goes the non-streaming
\* way (handleNormalResponse, POST /api/chat), and a send made while it is
\* true goes the streaming way (handleStreamedResponse, POST
\* /api/chat/stream).
C33_StreamingSettingSelectsTransport ==
    [][\A e \in Exchanges :
          /\ Begins(e) =>
                ex'[e].pc = IF app.settings.streaming THEN "token" ELSE "normal"
          /\ Requests(e) =>
                ex'[e].request[1].url =
                    app.settings.apiUrl
                    \o (IF app.settings.streaming THEN "/api/chat/stream" ELSE "/api/chat")]_vars

\* C37: Reset to Defaults leaves the settings that a first run with nothing
\* stored starts with: the same apiUrl and the same streaming.
C37_ResetRestoresFirstRun ==
    [][ResetToDefaults =>
          /\ app'.settings.apiUrl = LoadSettings(None).apiUrl
          /\ app'.settings.streaming = LoadSettings(None).streaming]_vars

----------------------------------------------------------------------------
\* Identifiers

\* C34: no two turns of the transcript have the same id: not the user turn and
\* the assistant turn of one exchange, not turns of different exchanges, not
\* the greeting (id 1) and any other turn.
C34_TurnIdsDistinct ==
    \A i, j \in DOMAIN messages : i # j => messages[i].id # messages[j].id

----------------------------------------------------------------------------
\* Code blocks over a step

\* C35: in a step in which the text of a streaming turn grows, a code block
\* that a StreamingCodeBlock showed formatted before the step, and that is
\* still shown by a StreamingCodeBlock after it, is still shown formatted:
\* a later fence that opens does not make an earlier, closed block raw again.
C35_FormattedStaysFormatted ==
    [][(/\ Streaming(view.message) /\ Streaming(view'.message)
        /\ Len(view'.message.streamingText[1]) > Len(view.message.streamingText[1])
        /\ SubSeq(view'.message.streamingText[1], 1, Len(view.message.streamingText[1]))
               = view.message.streamingText[1]
        /\ view.rendered.code.element = "StreamingCodeBlock"
        /\ view.cb.mounted /\ view.cb.showFormatted
        /\ view'.rendered.block = view.rendered.block /\ view'.position = view.position
        /\ view'.rendered.code.element = "StreamingCodeBlock") =>
           view'.cb.showFormatted]_vars

----------------------------------------------------------------------------
\* Records that are no error event

\* the line is a data record that parses to an event of type error
IsErrorEvent(line) == line.data /\ line.json = "object" /\ line.type = "error"

\* the line is a data record that parses to an event of type done
IsDoneEvent(line) == line.data /\ line.json = "object" /\ line.type = "done"

\* C36: a step that reads a chunk in which no record parses to an event of
\* type error leaves the turn of the exchange not errored, whatever its
\* records are (text that is not JSON, null or another value that is not an
\* object, an object with a type that is not recognized or with none), and
\* unless one of them is a done event the exchange goes on reading.
C36_OnlyErrorEventsErr ==
    [][\A e \in Exchanges :
          ex[e].pc = "read" =>
              \A chunk \in RecordChunks :
                  (/\ \A i \in DOMAIN chunk : ~IsErrorEvent(chunk[i])
                   /\ ReadChunk(e, chunk)) =>
                      /\ \A i \in DOMAIN messages' :
                            messages'[i].id = ex[e].botMessageId => ~messages'[i].isError
                      /\ (\A i \in DOMAIN chunk : ~IsDoneEvent(chunk[i])) => ex'[e].pc = "read"]_vars

====
